---- MODULE Spec2Model ----
(***************************************************************************)
(* A model of src/src/main.rs of rust-game: the tile grid, the map         *)
(* generator (rooms and tunnels carved into an all-wall grid), the         *)
(* collision-aware movement of an Object, the two-pass render compositor   *)
(* and the main loop that strings them together.                           *)
(*                                                                         *)
(* The program itself is the specification Spec.  The other specifications *)
(* (SpecCarveOne, SpecCarveList, SpecMove, SpecRender) apply one function  *)
(* of the program to inputs drawn from bounded sets, for the properties    *)
(* that are stated of a function for any input rather than of the program. *)
(***************************************************************************)
EXTENDS Integers, Sequences, FiniteSets

VARIABLES
    game,        \* struct Game { map }: the grid, map[x][y]
    objects,     \* the ordered sequence of Objects; objects[1] is the player
    con,         \* tcod.con, the off-screen console render_all paints
    root,        \* tcod.root, the root console blit copies into
    fullscreen,  \* the root window's fullscreen flag
    loc,         \* the position of the running function
    panicked,    \* TRUE once an index was out of range (the thread panicked)
    last,        \* the last operation applied and its arguments
    ops,         \* the list of carve operations of the run (carving runs)
    prev,        \* the grid as it stood before the last carve step
    steps        \* the number of calls made so far (runs of one function)

vars == <<game, objects, con, root, fullscreen, loc, panicked, last, ops, prev, steps>>

-----------------------------------------------------------------------------
(* Program constants                                                       *)

SCREEN_WIDTH == 80
SCREEN_HEIGHT == 50
MAP_WIDTH == 80
MAP_HEIGHT == 45

\* A Color { r, g, b } is written as the number r * 65536 + g * 256 + b.
Color(r, g, b) == r * 65536 + g * 256 + b

COLOUR_DARK_WALL == Color(0, 0, 100)
COLOUR_DARK_GROUND == Color(50, 50, 150)
\* tcod::colors::WHITE, DARK_YELLOW and BLACK
WHITE == Color(255, 255, 255)
DARK_YELLOW == Color(191, 191, 0)
BLACK == Color(0, 0, 0)

-----------------------------------------------------------------------------
(* Tile and Map                                                            *)

Tile_empty == [blocked |-> FALSE, block_sight |-> FALSE]

Tile_wall == [blocked |-> TRUE, block_sight |-> TRUE]

\* An index pair map[x][y] that does not panic: 0 <= x < len(map) and
\* 0 <= y < len(map[x]).  A negative i32 cast `as usize` is far above any
\* length, so it panics like any other index past the end.
InBounds(x, y) == x \in 0..(MAP_WIDTH - 1) /\ y \in 0..(MAP_HEIGHT - 1)

\* vec![vec![Tile::wall(); MAP_HEIGHT]; MAP_WIDTH]
AllWall == [x \in 0..(MAP_WIDTH - 1) |-> [y \in 0..(MAP_HEIGHT - 1) |-> Tile_wall]]

Min(a, b) == IF a < b THEN a ELSE b

Max(a, b) == IF a > b THEN a ELSE b

-----------------------------------------------------------------------------
(* Rect and the carve operations                                           *)

Rect_new(x, y, w, h) == [x1 |-> x, y1 |-> y, x2 |-> x + w, y2 |-> y + h]

\* The loops of create_room had they run x1..=x2 and y1..=y2.
room_cells_inclusive(room) == (room.x1..room.x2) \X (room.y1..room.y2)

\* The loops of create_room had they started at x1 and y1.
room_cells_from_corner(room) == (room.x1..(room.x2 - 1)) \X (room.y1..(room.y2 - 1))

\* The loop of create_h_tunnel had it run x1..x2 as given, end excluded.
h_tunnel_cells_as_given(x1, x2, y) == (x1..(x2 - 1)) \X {y}

\* The cells a carve operation assigns, one map[x][y] = Tile::empty() each;
\* the operation panics when one of them is out of range.
\* for x in (room.x1 + 1)..room.x2 { for y in (room.y1 + 1)..room.y2 { .. } }
room_cells(room) == ((room.x1 + 1)..(room.x2 - 1)) \X ((room.y1 + 1)..(room.y2 - 1))

\* for x in cmp::min(x1, x2)..(cmp::max(x1, x2) + 1) { .. }
h_tunnel_cells(x1, x2, y) == (Min(x1, x2)..((Max(x1, x2) + 1) - 1)) \X {y}

\* for y in cmp::min(y1, y2)..(cmp::max(y1, y2) + 1) { .. }
v_tunnel_cells(y1, y2, x) == {x} \X (Min(y1, y2)..((Max(y1, y2) + 1) - 1))

AllInBounds(cells) == \A c \in cells : InBounds(c[1], c[2])

\* A carve that flips a tile instead of emptying it.
carve_toggle(cells, m) ==
    [x \in DOMAIN m |-> [y \in DOMAIN m[x] |->
        IF <<x, y>> \in cells
        THEN IF m[x][y].blocked THEN Tile_empty ELSE Tile_wall
        ELSE m[x][y]]]

\* The grid after map[x][y] = Tile::empty() for every (x, y) of cells.
carve(cells, m) ==
    [x \in DOMAIN m |-> [y \in DOMAIN m[x] |->
        IF <<x, y>> \in cells THEN Tile_empty ELSE m[x][y]]]

create_room(room, m) == carve(room_cells(room), m)

create_h_tunnel(x1, x2, y, m) == carve(h_tunnel_cells(x1, x2, y), m)

create_v_tunnel(y1, y2, x, m) == carve(v_tunnel_cells(y1, y2, x), m)

\* make_map up to and including its two create_room calls.
make_map_rooms ==
    LET room1 == Rect_new(20, 15, 10, 15)
        room2 == Rect_new(50, 15, 10, 15)
    IN  create_room(room2, create_room(room1, AllWall))

\* make_map with the tunnel carved from the west edge of the grid.
make_map_from_edge == create_h_tunnel(0, 55, 23, make_map_rooms)

\* make_map without its tunnel.
make_map_no_tunnel == make_map_rooms

make_map == create_h_tunnel(25, 55, 23, make_map_rooms)

-----------------------------------------------------------------------------
(* Object                                                                  *)

Object_new(x, y, glyph, color) == [x |-> x, y |-> y, glyph |-> glyph, color |-> color]

\* move_by without its test of the destination tile.
move_by_unchecked(self, dx, dy, g) ==
    LET nx == self.x + dx
        ny == self.y + dy
    IN  IF ~InBounds(nx, ny)
        THEN [obj |-> self, fault |-> TRUE]
        ELSE [obj |-> [self EXCEPT !.x = nx, !.y = ny], fault |-> FALSE]

\* move_by testing the tile the object stands on, not the destination.
move_by_tests_origin(self, dx, dy, g) ==
    LET nx == self.x + dx
        ny == self.y + dy
    IN  IF ~InBounds(self.x, self.y)
        THEN [obj |-> self, fault |-> TRUE]
        ELSE IF ~g.map[self.x][self.y].blocked
             THEN [obj |-> [self EXCEPT !.x = nx, !.y = ny], fault |-> FALSE]
             ELSE [obj |-> self, fault |-> FALSE]

\* The result of move_by: the object afterwards, and whether the lookup
\* game.map[x + dx][y + dy] panicked.
move_by(self, dx, dy, g) ==
    LET nx == self.x + dx
        ny == self.y + dy
    IN  IF ~InBounds(nx, ny)
        THEN [obj |-> self, fault |-> TRUE]
        ELSE IF ~g.map[nx][ny].blocked
             THEN [obj |-> [self EXCEPT !.x = nx, !.y = ny], fault |-> FALSE]
             ELSE [obj |-> self, fault |-> FALSE]

-----------------------------------------------------------------------------
(* Consoles.  A console keeps, for every cell, a background colour (bg), a *)
(* foreground colour (fg) and a character (ch), one layer each, indexed    *)
(* [x][y]; it also keeps its default foreground colour.  The field log     *)
(* lists, in order, the writes made since the console was last cleared:    *)
(* "background" for the sweep of set_char_background calls over the map,   *)
(* "put_char" for each character written.                                  *)

Layer(w, h, v) ==
    LET column == [y \in 0..(h - 1) |-> v]
    IN  [x \in 0..(w - 1) |-> column]

Console_new(w, h) ==
    [bg |-> Layer(w, h, BLACK), fg |-> Layer(w, h, WHITE), ch |-> Layer(w, h, " "),
     w |-> w, h |-> h, default_fg |-> WHITE, log |-> <<>>]

\* Console::clear: every cell takes the default colours and a space.
Console_clear(c) ==
    [c EXCEPT !.bg = Layer(c.w, c.h, BLACK), !.fg = Layer(c.w, c.h, c.default_fg),
              !.ch = Layer(c.w, c.h, " "), !.log = <<>>]

OnConsole(c, x, y) == x \in 0..(c.w - 1) /\ y \in 0..(c.h - 1)

set_default_foreground(c, color) == [c EXCEPT !.default_fg = color]

\* put_char(x, y, glyph, BackgroundFlag::None): the character and the default
\* foreground are written, the background is left as it is.
put_char(c, x, y, glyph) ==
    IF OnConsole(c, x, y)
    THEN [c EXCEPT !.ch[x][y] = glyph, !.fg[x][y] = c.default_fg,
                   !.log = Append(@, "put_char")]
    ELSE c

\* Object::draw
draw(self, c) == put_char(set_default_foreground(c, self.color), self.x, self.y, self.glyph)

\* The objects drawn last to first.
RECURSIVE draw_objects_reversed(_, _, _)
draw_objects_reversed(objs, i, c) ==
    IF i > Len(objs) THEN c
    ELSE draw(objs[i], draw_objects_reversed(objs, i + 1, c))

\* for object in objects { object.draw(con) }
RECURSIVE draw_objects(_, _, _)
draw_objects(objs, i, c) ==
    IF i > Len(objs) THEN c
    ELSE draw_objects(objs, i + 1, draw(objs[i], c))

\* The background pass: every cell (x, y) of the map gets one
\* set_char_background(x, y, colour, BackgroundFlag::Set), the colour chosen
\* by the tile's block_sight.
background_pass(c, g) ==
    [c EXCEPT !.bg = [x \in 0..(c.w - 1) |->
                 IF x < MAP_WIDTH
                 THEN [y \in 0..(c.h - 1) |->
                          IF y < MAP_HEIGHT
                          THEN IF g.map[x][y].block_sight
                               THEN COLOUR_DARK_WALL ELSE COLOUR_DARK_GROUND
                          ELSE c.bg[x][y]]
                 ELSE c.bg[x]],
              !.log = Append(@, "background")]

\* blit(con, (0, 0), (MAP_WIDTH, MAP_HEIGHT), root, (0, 0), 1.0, 1.0): with
\* both alphas 1.0 the source cell replaces the destination cell, over the
\* part of the MAP_WIDTH x MAP_HEIGHT area that lies on both consoles.
blit_layer(src, dst, s, d) ==
    [x \in 0..(d.w - 1) |->
        IF x < MAP_WIDTH /\ x < s.w
        THEN [y \in 0..(d.h - 1) |->
                 IF y < MAP_HEIGHT /\ y < s.h THEN src[x][y] ELSE dst[x][y]]
        ELSE dst[x]]

blit(s, d) ==
    [d EXCEPT !.bg = blit_layer(s.bg, d.bg, s, d),
              !.fg = blit_layer(s.fg, d.fg, s, d),
              !.ch = blit_layer(s.ch, d.ch, s, d)]

\* render_all: the consoles afterwards.
render_all(c, r, g, objs) ==
    LET painted == draw_objects(objs, 1, background_pass(c, g))
    IN  [con |-> painted, root |-> blit(painted, r)]

-----------------------------------------------------------------------------
(* Input                                                                   *)

KeyCodes == {"Enter", "Escape", "Up", "Down", "Left", "Right", "Char"}

\* The keys wait_for_keypress may return: every code unmodified, and Enter
\* and Escape with Alt held.
Keys ==
    {[code |-> c, alt |-> FALSE] : c \in KeyCodes}
        \cup {[code |-> c, alt |-> TRUE] : c \in {"Enter", "Escape"}}

\* handle_keys: the match on the key, arms in order.
handle_keys(key, fs, pc, g) ==
    IF key.code = "Enter" /\ key.alt
    THEN [pc |-> pc, fullscreen |-> ~fs, exit |-> FALSE, fault |-> FALSE, d |-> <<>>]
    ELSE IF key.code = "Escape"
    THEN [pc |-> pc, fullscreen |-> fs, exit |-> TRUE, fault |-> FALSE, d |-> <<>>]
    ELSE IF key.code \in {"Up", "Down", "Left", "Right"}
    THEN LET d == CASE key.code = "Up" -> <<0, -1>>
                    [] key.code = "Down" -> <<0, 1>>
                    [] key.code = "Left" -> <<-1, 0>>
                    [] key.code = "Right" -> <<1, 0>>
             r == move_by(pc, d[1], d[2], g)
         IN  [pc |-> r.obj, fullscreen |-> fs, exit |-> FALSE, fault |-> r.fault, d |-> d]
    ELSE [pc |-> pc, fullscreen |-> fs, exit |-> FALSE, fault |-> FALSE, d |-> <<>>]

-----------------------------------------------------------------------------
(* The program: main                                                       *)

NoOp == [op |-> "none", args |-> <<>>]

Init ==
    /\ game = [map |-> <<>>]
    /\ objects = <<>>
    /\ con = Console_new(MAP_WIDTH, MAP_HEIGHT)
    /\ root = Console_new(SCREEN_WIDTH, SCREEN_HEIGHT)
    /\ fullscreen = FALSE
    /\ loc = "start"
    /\ panicked = FALSE
    /\ last = NoOp
    /\ ops = <<>>
    /\ prev = <<>>
    /\ steps = 0

\* Object creation and Game { map: make_map() }
Setup ==
    /\ loc = "start"
    /\ objects' = <<Object_new(25, 23, "@", WHITE),
                    Object_new(SCREEN_WIDTH \div 2 - 5, SCREEN_HEIGHT \div 2, "@", DARK_YELLOW)>>
    /\ game' = [map |-> make_map]
    /\ loc' = "loop"
    /\ UNCHANGED <<con, root, fullscreen, panicked, last, ops, prev, steps>>

\* while !window_closed(): the window was closed.
WindowClosed ==
    /\ loc = "loop"
    /\ loc' = "done"
    /\ UNCHANGED <<game, objects, con, root, fullscreen, panicked, last, ops, prev, steps>>

\* con.clear(); render_all(...); root.flush()
Frame ==
    /\ loc = "loop"
    /\ LET r == render_all(Console_clear(con), root, game, objects)
       IN  con' = r.con /\ root' = r.root
    /\ loc' = "keys"
    /\ UNCHANGED <<game, objects, fullscreen, panicked, last, ops, prev, steps>>

\* handle_keys had a rejected move dug the destination tile out.
HandleKeysDigging ==
    /\ loc = "keys"
    /\ \E key \in Keys :
          LET r == handle_keys(key, fullscreen, objects[1], game)
              asked == r.d # <<>> /\ ~r.fault
              dest == <<objects[1].x + r.d[1], objects[1].y + r.d[2]>>
          IN  /\ objects' = [objects EXCEPT ![1] = r.pc]
              /\ fullscreen' = r.fullscreen
              /\ panicked' = r.fault
              /\ last' = IF r.d = <<>> THEN [op |-> "key", args |-> <<>>]
                         ELSE [op |-> "move",
                               args |-> <<objects[1].x, objects[1].y, r.d[1], r.d[2]>>]
              /\ loc' = IF r.fault THEN "panic" ELSE IF r.exit THEN "done" ELSE "loop"
              /\ game' = IF asked /\ game.map[dest[1]][dest[2]].blocked
                         THEN [game EXCEPT !.map[dest[1]][dest[2]] = Tile_empty]
                         ELSE game
    /\ UNCHANGED <<con, root, ops, prev, steps>>

\* let exit = handle_keys(&mut tcod, &mut objects[0], &game); if exit { break }
HandleKeys ==
    /\ loc = "keys"
    /\ \E key \in Keys :
          LET r == handle_keys(key, fullscreen, objects[1], game)
          IN  /\ objects' = [objects EXCEPT ![1] = r.pc]
              /\ fullscreen' = r.fullscreen
              /\ panicked' = r.fault
              /\ last' = IF r.d = <<>> THEN [op |-> "key", args |-> <<>>]
                         ELSE [op |-> "move",
                               args |-> <<objects[1].x, objects[1].y, r.d[1], r.d[2]>>]
              /\ loc' = IF r.fault THEN "panic" ELSE IF r.exit THEN "done" ELSE "loop"
    /\ UNCHANGED <<game, con, root, ops, prev, steps>>

Next == Setup \/ WindowClosed \/ Frame \/ HandleKeys

Spec == Init /\ [][Next]_vars

-----------------------------------------------------------------------------
(* move_by applied to chosen objects, deltas and grids (SpecMove)          *)

\* The most calls made in one run.
MaxMoves == 2

\* The grids: all wall, the two rooms carved, and make_map's.
MoveGrids == {AllWall, make_map_rooms, make_map}

MoveStarts == {<<25, 23>>, <<21, 23>>, <<29, 23>>, <<35, 25>>, <<0, 0>>, <<79, 44>>}

\* Single steps in the eight directions, no step, and two long steps.
MoveDeltas == ((-1..1) \X (-1..1)) \cup {<<22, 0>>, <<-2, 0>>}

InitMove ==
    /\ \E g \in MoveGrids : game = [map |-> g]
    /\ \E p \in MoveStarts : objects = <<Object_new(p[1], p[2], "@", WHITE)>>
    /\ con = Console_new(MAP_WIDTH, MAP_HEIGHT)
    /\ root = Console_new(SCREEN_WIDTH, SCREEN_HEIGHT)
    /\ fullscreen = FALSE
    /\ loc = "move"
    /\ panicked = FALSE
    /\ last = NoOp
    /\ ops = <<>>
    /\ prev = <<>>
    /\ steps = 0

\* objects[0].move_by(dx, dy, &game)
MoveBy ==
    /\ loc = "move"
    /\ steps < MaxMoves
    /\ \E d \in MoveDeltas :
          LET r == move_by(objects[1], d[1], d[2], game)
          IN  /\ objects' = [objects EXCEPT ![1] = r.obj]
              /\ panicked' = r.fault
              /\ loc' = IF r.fault THEN "panic" ELSE "move"
              /\ last' = [op |-> "move",
                          args |-> <<objects[1].x, objects[1].y, d[1], d[2]>>]
    /\ steps' = steps + 1
    /\ UNCHANGED <<game, con, root, fullscreen, ops, prev>>

SpecMove == InitMove /\ [][MoveBy]_vars

-----------------------------------------------------------------------------
(* One carve operation applied to a grid (SpecCarveOne)                    *)

RoomOp(x, y, w, h) == [op |-> "room", args |-> <<x, y, w, h>>]

HTunnelOp(x1, x2, y) == [op |-> "h", args |-> <<x1, x2, y>>]

VTunnelOp(y1, y2, x) == [op |-> "v", args |-> <<y1, y2, x>>]

\* The cells an operation assigns.
op_cells(o) ==
    CASE o.op = "room" -> room_cells(Rect_new(o.args[1], o.args[2], o.args[3], o.args[4]))
      [] o.op = "h" -> h_tunnel_cells(o.args[1], o.args[2], o.args[3])
      [] o.op = "v" -> v_tunnel_cells(o.args[1], o.args[2], o.args[3])

\* The call an operation stands for.
apply_op(o, m) ==
    CASE o.op = "room" -> create_room(Rect_new(o.args[1], o.args[2], o.args[3], o.args[4]), m)
      [] o.op = "h" -> create_h_tunnel(o.args[1], o.args[2], o.args[3], m)
      [] o.op = "v" -> create_v_tunnel(o.args[1], o.args[2], o.args[3], m)

\* Rooms of every shape (width and height negative, zero, one, two and
\* more), tunnels in both directions and of length one, up to the edges
\* of the grid; the last three of each kind index past the grid.
OneRooms ==
    {RoomOp(x, y, w, h) : x \in {0, 20, 50}, y \in {0, 15}, w \in {-1, 0, 1, 2, 10}, h \in {1, 2, 15}}
        \cup {RoomOp(69, 29, 10, 15), RoomOp(70, 30, 10, 15), RoomOp(0, 0, 79, 44),
              RoomOp(70, 40, 11, 5), RoomOp(-2, 5, 4, 4), RoomOp(10, 40, 3, 7)}

OneHTunnels ==
    {HTunnelOp(x1, x2, y) : x1 \in {0, 25, 55, 79}, x2 \in {0, 25, 55, 79}, y \in {0, 23, 44}}
        \cup {HTunnelOp(25, 80, 23), HTunnelOp(-1, 5, 3), HTunnelOp(3, 5, 45)}

OneVTunnels ==
    {VTunnelOp(y1, y2, x) : y1 \in {0, 16, 29, 44}, y2 \in {0, 16, 29, 44}, x \in {0, 35, 79}}
        \cup {VTunnelOp(0, 45, 35), VTunnelOp(-1, 5, 3), VTunnelOp(3, 5, 80)}

OneGrids == {AllWall, make_map}

InitCarveOne ==
    /\ \E g \in OneGrids : game = [map |-> g] /\ prev = g
    /\ \E o \in OneRooms \cup OneHTunnels \cup OneVTunnels : ops = <<o>>
    /\ objects = <<>>
    /\ con = Console_new(MAP_WIDTH, MAP_HEIGHT)
    /\ root = Console_new(SCREEN_WIDTH, SCREEN_HEIGHT)
    /\ fullscreen = FALSE
    /\ loc = "carve"
    /\ panicked = FALSE
    /\ last = NoOp
    /\ steps = 0

\* One call of create_room, create_h_tunnel or create_v_tunnel on the grid.
\* An index out of range panics, and no grid is handed back.
CarveOne ==
    /\ loc = "carve"
    /\ last' = ops[1]
    /\ prev' = game.map
    /\ IF AllInBounds(op_cells(ops[1]))
       THEN /\ game' = [game EXCEPT !.map = apply_op(ops[1], game.map)]
            /\ loc' = "carved"
            /\ panicked' = FALSE
       ELSE /\ game' = game
            /\ loc' = "panic"
            /\ panicked' = TRUE
    /\ steps' = steps + 1
    /\ UNCHANGED <<objects, con, root, fullscreen, ops>>

SpecCarveOne == InitCarveOne /\ [][CarveOne]_vars

-----------------------------------------------------------------------------
(* A list of carve operations applied twice (SpecCarveList)                *)

\* The longest list.
MaxOps == 2

ListOps ==
    {RoomOp(20, 15, 10, 15), RoomOp(50, 15, 10, 15), RoomOp(22, 20, 30, 5),
     HTunnelOp(25, 55, 23), HTunnelOp(79, 0, 16), VTunnelOp(10, 30, 25)}

RECURSIVE OpLists(_)
OpLists(n) ==
    IF n = 0 THEN {<<>>}
    ELSE OpLists(n - 1) \cup {Append(l, o) : l \in {k \in OpLists(n - 1) : Len(k) = n - 1}, o \in ListOps}

ListGrids == {AllWall, make_map_rooms, make_map}

\* The operations of a list applied in order, as make_map applies its own.
RECURSIVE carve_all(_, _, _)
carve_all(list, i, m) ==
    IF i > Len(list) THEN m
    ELSE carve_all(list, i + 1, apply_op(list[i], m))

InitCarveList ==
    /\ \E g \in ListGrids : game = [map |-> g] /\ prev = g
    /\ ops \in OpLists(MaxOps)
    /\ objects = <<>>
    /\ con = Console_new(MAP_WIDTH, MAP_HEIGHT)
    /\ root = Console_new(SCREEN_WIDTH, SCREEN_HEIGHT)
    /\ fullscreen = FALSE
    /\ loc = "list"
    /\ panicked = FALSE
    /\ last = NoOp
    /\ steps = 0

\* The list is applied to the grid: the first time, then a second time.
ApplyList ==
    /\ loc \in {"list", "once"}
    /\ prev' = game.map
    /\ game' = [game EXCEPT !.map = carve_all(ops, 1, game.map)]
    /\ loc' = IF loc = "list" THEN "once" ELSE "twice"
    /\ last' = [op |-> "list", args |-> <<>>]
    /\ steps' = steps + 1
    /\ UNCHANGED <<objects, con, root, fullscreen, panicked, ops>>

SpecCarveList == InitCarveList /\ [][ApplyList]_vars

-----------------------------------------------------------------------------
(* One render_all pass over a grid and a sequence of objects (SpecRender)  *)

\* The longest sequence of objects.
MaxObjects == 2

RenderObjects ==
    {Object_new(p[1], p[2], a[1], a[2]) :
        p \in {<<25, 23>>, <<35, 25>>},
        a \in {<<"@", WHITE>>, <<"@", DARK_YELLOW>>, <<"o", WHITE>>}}

RECURSIVE ObjectLists(_)
ObjectLists(n) ==
    IF n = 0 THEN {<<>>}
    ELSE ObjectLists(n - 1)
            \cup {Append(l, o) : l \in {k \in ObjectLists(n - 1) : Len(k) = n - 1}, o \in RenderObjects}

RenderGrids == {AllWall, make_map}

InitRender ==
    /\ \E g \in RenderGrids : game = [map |-> g]
    /\ objects \in ObjectLists(MaxObjects)
    /\ con = Console_new(MAP_WIDTH, MAP_HEIGHT)
    /\ root = Console_new(SCREEN_WIDTH, SCREEN_HEIGHT)
    /\ fullscreen = FALSE
    /\ loc = "render"
    /\ panicked = FALSE
    /\ last = NoOp
    /\ ops = <<>>
    /\ prev = <<>>
    /\ steps = 0

\* render_all(&mut tcod, &game, &objects) on freshly made consoles.
RenderAll ==
    /\ loc = "render"
    /\ LET r == render_all(con, root, game, objects)
       IN  con' = r.con /\ root' = r.root
    /\ loc' = "rendered"
    /\ last' = [op |-> "render", args |-> <<>>]
    /\ steps' = steps + 1
    /\ UNCHANGED <<game, objects, fullscreen, panicked, ops, prev>>

SpecRender == InitRender /\ [][RenderAll]_vars

-----------------------------------------------------------------------------
(* Properties of the program (Spec)                                        *)

Player == objects[1]

\* The destination of the last move_by call: (x + dx, y + dy).
LastDest == <<last.args[1] + last.args[3], last.args[2] + last.args[4]>>

LastFrom == <<last.args[1], last.args[2]>>

\* Strictly inside Rect::new(x, y, w, h): x < cx < x + w and y < cy < y + h.
Inside(cx, cy, x, y, w, h) == x < cx /\ cx < x + w /\ y < cy /\ cy < y + h

\* The cells the reference layout opens: the interiors of the two rooms
\* and the tunnel x in 25..=55 at y = 23.
Carved(x, y) ==
    \/ Inside(x, y, 20, 15, 10, 15)
    \/ Inside(x, y, 50, 15, 10, 15)
    \/ (25 <= x /\ x <= 55 /\ y = 23)

\* C2: the grid make_map returns is 80 x 45 with every cell initialised, and
\* a cell is unblocked exactly when it lies in the interior of
\* Rect::new(20,15,10,15), in the interior of Rect::new(50,15,10,15) or on
\* the tunnel x in 25..=55 at y = 23; every other cell is blocked.
C2_MakeMapLayout ==
    loc # "start" =>
        /\ DOMAIN game.map = 0..79
        /\ \A x \in 0..79 :
              /\ DOMAIN game.map[x] = 0..44
              /\ \A y \in 0..44 :
                    /\ game.map[x][y] \in {Tile_empty, Tile_wall}
                    /\ game.map[x][y].blocked = ~Carved(x, y)

C2_Witness ==
    /\ loc = "loop"
    /\ ~game.map[25][23].blocked /\ ~game.map[59][29].blocked
    /\ game.map[20][23].blocked /\ game.map[24][23] = Tile_empty

\* C7: in the reference configuration no sequence of keys makes move_by look
\* up a destination outside 0 <= x < 80, 0 <= y < 45: the thread never
\* panics, the destination of every move made was in range, and so is the
\* destination of every move the next key can ask for.
C7_LookupsInBounds ==
    /\ ~panicked
    /\ last.op = "move" =>
          LastDest[1] \in 0..79 /\ LastDest[2] \in 0..44
    /\ loc = "keys" =>
          \A key \in Keys : ~handle_keys(key, fullscreen, Player, game).fault

\* The player has just walked into the wall west of the first room.
C7_Witness ==
    /\ loc = "loop" /\ last.op = "move"
    /\ LastDest = <<20, 23>> /\ Player.x = 21 /\ Player.y = 23

\* C9: once make_map has returned, no key handled and no frame rendered
\* changes any tile of the Game's grid.
C9_GridReadOnly == [][loc # "start" => game' = game]_vars

\* A frame is up after an accepted move, the window toggled to fullscreen.
C9_Witness ==
    /\ loc = "keys" /\ last.op = "move" /\ fullscreen
    /\ <<Player.x, Player.y>> = LastDest
    /\ con.ch[Player.x][Player.y] = "@"

\* The positions one key can take an object at p to.
KeyStep(p, g) ==
    {LET r == handle_keys(key, FALSE, Object_new(p[1], p[2], "@", WHITE), g)
     IN  <<r.pc.x, r.pc.y>> : key \in Keys}

\* The positions a finite sequence of keys can take the player to.
RECURSIVE Reach(_, _, _)
Reach(seen, frontier, g) ==
    IF frontier = {} THEN seen
    ELSE LET new == UNION {KeyStep(p, g) : p \in frontier} \ seen
         IN  Reach(seen \cup new, new, g)

OpenCells(g) == {c \in (0..(MAP_WIDTH - 1)) \X (0..(MAP_HEIGHT - 1)) : ~g.map[c[1]][c[2]].blocked}

\* C10: in the reference configuration the player never stands on a blocked
\* cell, and the positions it can reach from (25,23) by up/down/left/right
\* keys are exactly the unblocked cells of the grid make_map returned: both
\* rooms and the tunnel are joined.
C10_RoomsJoined ==
    /\ loc # "start" => ~game.map[Player.x][Player.y].blocked
    /\ (loc = "loop" /\ last = NoOp) =>
          /\ <<Player.x, Player.y>> = <<25, 23>>
          /\ Reach({<<25, 23>>}, {<<25, 23>>}, game) = OpenCells(game)

\* The player stands in the far corner of the second room.
C10_Witness == loc = "keys" /\ Player.x = 59 /\ Player.y = 29

-----------------------------------------------------------------------------
(* Properties of move_by (SpecMove)                                        *)

Only == objects[1]

\* C1: when the destination (x + dx, y + dy) of a move_by call is within the
\* grid, the call does not fail, and it leaves the object exactly at the
\* destination if the destination tile is not blocked and exactly where it
\* was if the tile is blocked.
C1_MoveBy ==
    (last.op = "move" /\ LastDest[1] \in 0..79 /\ LastDest[2] \in 0..44) =>
        /\ ~panicked
        /\ IF game.map[LastDest[1]][LastDest[2]].blocked
           THEN <<Only.x, Only.y>> = LastFrom
           ELSE <<Only.x, Only.y>> = LastDest

\* A long step over the wall between the rooms lands on an open cell.
C1_Witness ==
    /\ last.op = "move" /\ LastFrom = <<29, 23>> /\ LastDest = <<51, 23>>
    /\ game.map[30][23].blocked
    /\ ~game.map[51][23].blocked /\ <<Only.x, Only.y>> = <<51, 23>>

\* The call move_by(-1, 0) just made, on the grid with the two rooms carved
\* and the tunnel not yet carved.
PreTunnelMoveWest ==
    /\ last.op = "move" /\ last.args[3] = -1 /\ last.args[4] = 0
    /\ game.map = make_map_rooms

\* C6 as stated: on the grid before the tunnel is carved, (24,23) is a wall
\* and an object at (25,23) that calls move_by(-1, 0) stays at (25,23).
C6_AsStated ==
    (PreTunnelMoveWest /\ LastFrom = <<25, 23>>) =>
        /\ game.map[24][23].blocked
        /\ <<Only.x, Only.y>> = <<25, 23>>

\* C6 as amended: on the grid before the tunnel is carved, (24,23) is an open
\* cell of the first room, so an object at (25,23) that calls move_by(-1, 0)
\* moves to (24,23); the wall west of it is (20,23), and an object at (21,23)
\* that calls move_by(-1, 0) stays at (21,23).
C6_Amended ==
    PreTunnelMoveWest =>
        /\ LastFrom = <<25, 23>> =>
              ~game.map[24][23].blocked /\ <<Only.x, Only.y>> = <<24, 23>>
        /\ LastFrom = <<21, 23>> =>
              game.map[20][23].blocked /\ <<Only.x, Only.y>> = <<21, 23>>

C6_Witness ==
    /\ PreTunnelMoveWest /\ LastFrom = <<25, 23>> /\ steps = 1
    /\ <<Only.x, Only.y>> = <<24, 23>>

-----------------------------------------------------------------------------
(* Properties of the carve operations (SpecCarveOne, SpecCarveList)        *)

\* C3: create_room on the all-wall grid leaves every cell whose x is x1 or
\* x2, or whose y is y1 or y2, a wall, and empties only cells strictly inside
\* the rectangle; Rect::new(20,15,10,15) empties (21,16)..(29,29) and leaves
\* every (20,y) and (30,y) a wall.
C3_RoomKeepsBorder ==
    (loc = "carved" /\ last.op = "room" /\ prev = AllWall) =>
        LET x1 == last.args[1]
            y1 == last.args[2]
            x2 == last.args[1] + last.args[3]
            y2 == last.args[2] + last.args[4]
        IN  /\ \A x \in 0..79, y \in 0..44 :
                  /\ (x \in {x1, x2} \/ y \in {y1, y2}) => game.map[x][y] = Tile_wall
                  /\ game.map[x][y] # Tile_wall =>
                        /\ game.map[x][y] = Tile_empty
                        /\ x1 < x /\ x < x2 /\ y1 < y /\ y < y2
            /\ last.args = <<20, 15, 10, 15>> =>
                  /\ \A x \in 21..29, y \in 16..29 : game.map[x][y] = Tile_empty
                  /\ \A y \in 0..44 :
                        game.map[20][y] = Tile_wall /\ game.map[30][y] = Tile_wall

C3_Witness ==
    /\ loc = "carved" /\ last = RoomOp(20, 15, 10, 15) /\ prev = AllWall
    /\ game.map[21][16] = Tile_empty /\ game.map[29][29] = Tile_empty
    /\ game.map[20][16] = Tile_wall

\* C4: create_h_tunnel(x1, x2, y) empties exactly the cells (x, y) with
\* min(x1,x2) <= x <= max(x1,x2) and changes no other cell, whichever of x1,
\* x2 is larger; create_v_tunnel(y1, y2, x) does the same along column x;
\* create_h_tunnel(25,55,23) leaves every cell (25..=55, 23) empty.
C4_Tunnels ==
    (loc = "carved" /\ last.op \in {"h", "v"}) =>
        LET a == last.args[1]
            b == last.args[2]
            c == last.args[3]
            lo == IF a <= b THEN a ELSE b
            hi == IF a <= b THEN b ELSE a
        IN  /\ \A x \in 0..79, y \in 0..44 :
                  game.map[x][y] =
                      IF last.op = "h"
                      THEN IF y = c /\ lo <= x /\ x <= hi THEN Tile_empty ELSE prev[x][y]
                      ELSE IF x = c /\ lo <= y /\ y <= hi THEN Tile_empty ELSE prev[x][y]
            /\ game.map = IF last.op = "h" THEN create_h_tunnel(b, a, c, prev)
                          ELSE create_v_tunnel(b, a, c, prev)
            /\ last = HTunnelOp(25, 55, 23) =>
                  \A x \in 25..55 : game.map[x][23] = Tile_empty

\* A tunnel given from east to west, carved through the all-wall grid.
C4_Witness ==
    /\ loc = "carved" /\ last = HTunnelOp(55, 25, 23) /\ prev = AllWall
    /\ game.map[25][23] = Tile_empty /\ game.map[55][23] = Tile_empty
    /\ game.map[24][23] = Tile_wall /\ game.map[56][23] = Tile_wall

\* C5: a list of in-range room and tunnel carves applied a second time
\* leaves the grid exactly as the first application left it.
C5_CarveIdempotent == loc = "twice" => game.map = prev

\* A room and a tunnel out of it, applied twice to the all-wall grid.
C5_Witness ==
    /\ loc = "twice" /\ ops = <<RoomOp(20, 15, 10, 15), HTunnelOp(25, 55, 23)>>
    /\ game.map[21][16] = Tile_empty /\ game.map[40][23] = Tile_empty
    /\ game.map[51][16] = Tile_wall

-----------------------------------------------------------------------------
(* Properties of render_all (SpecRender)                                   *)

\* The objects standing at the cell of objects[i].
At(i) == {j \in 1..Len(objects) : objects[j].x = objects[i].x /\ objects[j].y = objects[i].y}

\* C8: after one render_all pass every cell holding an object shows the
\* glyph and the foreground colour of the last object of the sequence at
\* that cell, over the background the cell's tile gives it; the background
\* sweep is the first write of the pass and every glyph is written after it.
C8_LastObjectOnTop ==
    loc = "rendered" =>
        /\ con.log = <<"background">> \o [i \in 1..Len(objects) |-> "put_char"]
        /\ \A i \in 1..Len(objects) :
              (\A j \in At(i) : j <= i) =>
                  LET x == objects[i].x
                      y == objects[i].y
                  IN  /\ con.ch[x][y] = objects[i].glyph
                      /\ con.fg[x][y] = objects[i].color
                      /\ con.bg[x][y] = IF game.map[x][y].block_sight
                                        THEN COLOUR_DARK_WALL ELSE COLOUR_DARK_GROUND
                      /\ root.ch[x][y] = objects[i].glyph
                      /\ root.fg[x][y] = objects[i].color

\* Two objects of different glyph and colour on one cell.
C8_Witness ==
    /\ loc = "rendered" /\ Len(objects) = 2
    /\ objects[1] = Object_new(25, 23, "@", DARK_YELLOW)
    /\ objects[2] = Object_new(25, 23, "o", WHITE)
    /\ con.ch[25][23] = "o" /\ con.fg[25][23] = WHITE

====
